---- MODULE Spec2Model ----
(***************************************************************************)
(* Model of training/train_anemia_model.py: the training-and-export        *)
(* pipeline of main() -- directory validation, the two model.fit() phases  *)
(* driven by the Keras callbacks built in get_callbacks(), evaluation,     *)
(* and the TFLite export with optional metadata embedding.                 *)
(*                                                                         *)
(* Units.  Validation AUC and validation loss are drawn per epoch from     *)
(* small integer sets.  Losses are in units of 5e-5, so the                *)
(* ReduceLROnPlateau default min_delta (1e-4) is 2.  Learning rates are in *)
(* units of 6.25e-10 (= 1e-7 / 160), so min_lr (1e-7) is 160 and every     *)
(* halving and division by ten of the modelled rates is exact.            *)
(***************************************************************************)
EXTENDS Integers, Sequences, FiniteSets, TLC

VARIABLES
    (* command line (parse_args) and environment *)
    epochs,            \* args.epochs
    learning_rate,     \* args.learning_rate
    fine_tune_layers,  \* args.fine_tune_layers
    dataDir,           \* what exists under args.data_dir
    nLayers,           \* len(base_model.layers)
    restoreAtTrainEnd, \* EarlyStopping restores the best weights in on_train_end (Keras 3) or only on an early stop (Keras 2)
    (* control *)
    pc,                \* position in main()
    epoch,             \* index of the next epoch model.fit() runs
    stop_training,     \* model.stop_training
    (* the model *)
    created,           \* data generators and model have been built
    weights,           \* current parameters: the epoch that produced them and their validation AUC
    trainable,         \* indices (1..nLayers) of the trainable base-model layers
    lr,                \* optimizer learning rate
    (* callbacks *)
    es,                \* EarlyStopping state
    mc,                \* ModelCheckpoint state
    rlr,               \* ReduceLROnPlateau state
    (* file system and console *)
    outputDir,         \* args.output_dir exists
    files,             \* contents of the files under args.output_dir
    log,               \* diagnostics printed
    evaluated,         \* parameters evaluate_model() ran on
    metrics,           \* the dict evaluate_model() returns
    f1Line,            \* the "F1 Score" line evaluate_model() prints, if any
    tfliteSupport,     \* outcome of "from tflite_support import ..."
    (* history, for stating properties *)
    epochLog,          \* <<phase, epoch index>> of every epoch run so far, in order
    bestSeen,          \* highest validation AUC of the run so far
    streak,            \* consecutive epochs whose AUC did not exceed bestSeen
    phaseBest,         \* highest validation AUC of the current fit() call
    phaseStreak,       \* consecutive epochs of this fit() whose AUC did not exceed phaseBest
    lossBest,          \* lowest validation loss of the current fit() call
    lossStreak,        \* consecutive epochs of this fit() without a lower loss, since the last reduction
    lrEvent            \* whether the last epoch completed five epochs without a lower loss, and the rate before it

vars == <<epochs, learning_rate, fine_tune_layers, dataDir, nLayers, restoreAtTrainEnd,
          pc, epoch, stop_training, created, weights, trainable, lr, es, mc, rlr,
          outputDir, files, log, evaluated, metrics, f1Line, tfliteSupport,
          epochLog, bestSeen, streak, phaseBest, phaseStreak, lossBest, lossStreak, lrEvent>>

args == <<epochs, learning_rate, fine_tune_layers, dataDir, nLayers, restoreAtTrainEnd>>
history == <<epochLog, bestSeen, streak, phaseBest, phaseStreak, lossBest, lossStreak, lrEvent>>

----------------------------------------------------------------------------
(* Bounds *)

MaxEpochs == 22
MaxLayers == 4
MaxFineTune == 5
PrScale == 4

(* Program constants *)

PHASE1_CAP == 10
ES_PATIENCE == 10
RLR_PATIENCE == 5
RLR_MIN_DELTA == 2
MIN_LR == 160
DEFAULT_LR == 1600000
DEFAULT_FINE_TUNE == 20
NegInf == -1
PosInf == 1000
NoEpoch == -1

AucValues == {1, 2, 3}
LossValues == {1, 3, 4}
LevelLoss == 3
LrAucValues == {1, 2}
LearningRates == {DEFAULT_LR, 4800, 800}
LrEpochs == {4, MaxEpochs - 10, MaxEpochs}
FtEpochs == 0..3
EvalEpochs == 0..2
CoarseRates == {0, PrScale}
DataDirStates == {"missing", "no_subdirs", "no_anemic", "no_normal", "ok"}

NoWeights == [epoch |-> NoEpoch - 1, auc |-> 0]
InitialWeights == [epoch |-> NoEpoch, auc |-> 0]
NoLrEvent == [due |-> FALSE, old |-> 0]
MetricNames == {"loss", "accuracy", "precision", "recall", "auc"}
Measured == "measured"
NoMetrics == [name \in {} |-> Measured]
NoF1Line == [printed |-> FALSE, num |-> 0, den |-> 1]
DivisionFault == [fault |-> TRUE, num |-> 0, den |-> 0]
NoFile == [kind |-> "absent", weights |-> NoWeights, metadata |-> FALSE]

FileNames == {"anemia_model_best.keras", "anemia_model_final.keras",
              "anemia_detector.tflite", "labels.txt", "model_metadata.json",
              "anemia_detector_with_metadata.tflite"}

Min(a, b) == IF a < b THEN a ELSE b
Max(a, b) == IF a > b THEN a ELSE b

----------------------------------------------------------------------------
(* Variant: the Phase 1 epoch count with the half rounded up *)
InitialEpochsRoundUp(e) == Min(PHASE1_CAP, (e + 1) \div 2)

(* main(): the Phase 1 epoch count, initial_epochs = min(10, args.epochs // 2) *)
InitialEpochs(e) == Min(PHASE1_CAP, e \div 2)

(* main(): "if args.epochs > initial_epochs" *)
EntersPhase2(e) == e > InitialEpochs(e)

(* First and one-past-last epoch index of each model.fit() call of main() *)
FitFirstEpoch(phase) == IF phase = 1 THEN 0 ELSE InitialEpochs(epochs)
FitLastEpoch(phase) == IF phase = 1 THEN InitialEpochs(epochs) ELSE epochs

----------------------------------------------------------------------------
(* EarlyStopping(monitor='val_auc', patience=10, restore_best_weights=True, *)
(* mode='max')                                                             *)

(* on_train_begin: wait, stopped_epoch, best and best_weights start afresh *)
EsTrainBegin == [best |-> NegInf, wait |-> 0, best_weights |-> NoWeights, stopped_epoch |-> 0]

(* Variant: a tie with the best counts as an improvement *)
EsImprovedOrEqual(current, best) == current >= best

(* mode='max', min_delta=0: np.greater(current - 0, best) *)
EsImproved(current, best) == current > best

(* patience=10 *)
EsPatienceOver(wait) == wait >= ES_PATIENCE

(* on_epoch_end at epoch e with val_auc = current and model weights w:      *)
(* the new callback state, model.stop_training and the model weights.      *)
EsEpochEnd(s, e, current, w) ==
    LET bw == IF s.best_weights = NoWeights THEN w ELSE s.best_weights
        wait1 == s.wait + 1
    IN  IF EsImproved(current, s.best)
        THEN [es |-> [best |-> current, wait |-> 0, best_weights |-> w,
                      stopped_epoch |-> s.stopped_epoch],
              stop |-> FALSE, weights |-> w]
        ELSE IF EsPatienceOver(wait1) /\ e > 0
        THEN [es |-> [best |-> s.best, wait |-> wait1, best_weights |-> bw,
                      stopped_epoch |-> e],
              stop |-> TRUE, weights |-> bw]
        ELSE [es |-> [best |-> s.best, wait |-> wait1, best_weights |-> bw,
                      stopped_epoch |-> s.stopped_epoch],
              stop |-> FALSE, weights |-> w]

(* on_train_end: Keras 3 puts the best weights back whenever it holds some; *)
(* Keras 2 has already done so in on_epoch_end, and only on an early stop.  *)
EsTrainEnd(s, w) ==
    IF restoreAtTrainEnd /\ s.best_weights # NoWeights THEN s.best_weights ELSE w

----------------------------------------------------------------------------
(* ModelCheckpoint(monitor='val_auc', save_best_only=True, mode='max')      *)

(* __init__: best = -inf; nothing resets it afterwards *)
McInit == [best |-> NegInf]

(* Variant: a checkpoint callback that starts afresh with every fit() *)
McTrainBeginReset(s) == McInit

(* on_train_begin leaves the callback's best untouched *)
McTrainBegin(s) == s

(* save_best_only: np.greater(current, best) *)
McShouldSave(current, best) == current > best

KerasFile(w) == [kind |-> "keras", weights |-> w, metadata |-> FALSE]

(* on_epoch_end with val_auc = current and model weights w: the new state   *)
(* and the new content of anemia_model_best.keras.                         *)
McEpochEnd(s, current, w, file) ==
    IF McShouldSave(current, s.best)
    THEN [mc |-> [best |-> current], file |-> KerasFile(w)]
    ELSE [mc |-> s, file |-> file]

----------------------------------------------------------------------------
(* ReduceLROnPlateau(monitor='val_loss', factor=0.5, patience=5, min_lr=1e-7) *)

(* on_train_begin -> _reset(): best = +inf, wait = 0 (cooldown is 0) *)
RlrTrainBegin == [best |-> PosInf, wait |-> 0]

(* mode 'auto' on a loss: np.less(current, best - min_delta) *)
RlrImproved(current, best) == current < best - RLR_MIN_DELTA

(* Variant: the halving without the floor *)
RlrReduceNoFloor(old_lr) == old_lr \div 2

(* factor=0.5, min_lr=1e-7: new_lr = max(old_lr * factor, min_lr) *)
RlrReduce(old_lr) == Max(old_lr \div 2, MIN_LR)

(* on_epoch_end with val_loss = current and learning rate old_lr *)
RlrEpochEnd(s, current, old_lr) ==
    IF RlrImproved(current, s.best)
    THEN [rlr |-> [best |-> current, wait |-> 0], lr |-> old_lr]
    ELSE IF s.wait + 1 >= RLR_PATIENCE
         THEN IF old_lr > MIN_LR
              THEN [rlr |-> [best |-> s.best, wait |-> 0], lr |-> RlrReduce(old_lr)]
              ELSE [rlr |-> [best |-> s.best, wait |-> s.wait + 1], lr |-> old_lr]
         ELSE [rlr |-> [best |-> s.best, wait |-> s.wait + 1], lr |-> old_lr]

----------------------------------------------------------------------------
(* fine_tune_model() *)

(* Python's seq[:stop] on a sequence of n items keeps indices 1..SliceStop  *)
SliceStop(n, stop) ==
    IF stop < 0 THEN Max(n + stop, 0) ELSE Min(stop, n)

(* base_model.trainable = True, then layers[:-fine_tune_layers] are frozen  *)
FrozenLayers(n, k) == 1..SliceStop(n, 0 - k)
TrainableAfterFineTune(n, k) == (1..n) \ FrozenLayers(n, k)

(* Adam(learning_rate=learning_rate / 10) *)
FineTuneLr(rate) == rate \div 10

----------------------------------------------------------------------------
(* Artifacts written by convert_to_tflite() and add_tflite_metadata() *)
TfliteFile(w, meta) == [kind |-> "tflite", weights |-> w, metadata |-> meta]
TextFile == [kind |-> "text", weights |-> NoWeights, metadata |-> FALSE]

(* MetadataPopulator.with_model_file(path) ... populate(): writes the       *)
(* metadata buffer and the associated files into the file at path.         *)
Populate(file) == [file EXCEPT !.metadata = TRUE]

----------------------------------------------------------------------------
(* State after parse_args(), before main() has done anything *)
InitWith(E, R, K, N, D) ==
    /\ epochs \in E
    /\ learning_rate \in R
    /\ fine_tune_layers \in K
    /\ nLayers \in N
    /\ dataDir \in D
    /\ restoreAtTrainEnd \in BOOLEAN
    /\ pc = "start"
    /\ epoch = 0
    /\ stop_training = FALSE
    /\ created = FALSE
    /\ weights = NoWeights
    /\ trainable = {}
    /\ lr = 0
    /\ es = EsTrainBegin
    /\ mc = McInit
    /\ rlr = RlrTrainBegin
    /\ outputDir = FALSE
    /\ files = [f \in FileNames |-> NoFile]
    /\ log = {}
    /\ evaluated = NoWeights
    /\ metrics = NoMetrics
    /\ f1Line = NoF1Line
    /\ tfliteSupport = "unknown"
    /\ epochLog = <<>>
    /\ bestSeen = NegInf
    /\ streak = 0
    /\ phaseBest = NegInf
    /\ phaseStreak = 0
    /\ lossBest = PosInf
    /\ lossStreak = 0
    /\ lrEvent = NoLrEvent

Init == InitWith(0..MaxEpochs, {DEFAULT_LR}, {DEFAULT_FINE_TUNE}, {MaxLayers}, DataDirStates)

(* main(): "if not os.path.exists(args.data_dir)" *)
DataDirMissing(d) == d = "missing"

(* Variant: the subdirectory check with "and" in place of "or" *)
SubdirMissingBoth(d) == d = "no_subdirs"

(* main(): "if not os.path.exists(anemic_dir) or not os.path.exists(normal_dir)" *)
SubdirMissing(d) == d \in {"no_subdirs", "no_anemic", "no_normal"}

(* main(), lines 422-453: the directory checks, then create_data_generators, *)
(* create_model, compile_model and get_callbacks (which makes output_dir).  *)
Start ==
    /\ pc = "start"
    /\ IF DataDirMissing(dataDir)
       THEN /\ log' = log \cup {"error_data_dir"}
            /\ pc' = "halted"
            /\ UNCHANGED <<created, weights, trainable, lr, es, mc, rlr, outputDir>>
       ELSE IF SubdirMissing(dataDir)
       THEN /\ log' = log \cup {"error_subdirs"}
            /\ pc' = "halted"
            /\ UNCHANGED <<created, weights, trainable, lr, es, mc, rlr, outputDir>>
       ELSE /\ created' = TRUE
            /\ weights' = InitialWeights
            /\ trainable' = {}
            /\ lr' = learning_rate
            /\ outputDir' = TRUE
            /\ es' = EsTrainBegin
            /\ mc' = McInit
            /\ rlr' = RlrTrainBegin
            /\ pc' = "phase1_begin"
            /\ UNCHANGED log
    /\ UNCHANGED <<args, epoch, stop_training, files, evaluated, metrics, f1Line, tfliteSupport, history>>

(* model.fit(): stop_training = False, then every callback's on_train_begin *)
FitBegin(phase) ==
    /\ pc = IF phase = 1 THEN "phase1_begin" ELSE "phase2_begin"
    /\ pc' = IF phase = 1 THEN "phase1" ELSE "phase2"
    /\ stop_training' = FALSE
    /\ epoch' = FitFirstEpoch(phase)
    /\ es' = EsTrainBegin
    /\ mc' = McTrainBegin(mc)
    /\ rlr' = RlrTrainBegin
    /\ phaseBest' = NegInf
    /\ phaseStreak' = 0
    /\ lossBest' = PosInf
    /\ lossStreak' = 0
    /\ lrEvent' = NoLrEvent
    /\ UNCHANGED <<args, created, weights, trainable, lr, outputDir, files, log,
                   evaluated, metrics, f1Line, tfliteSupport, epochLog, bestSeen, streak>>

(* One epoch of model.fit(): training and validation, then on_epoch_end of  *)
(* EarlyStopping, ModelCheckpoint and ReduceLROnPlateau, in list order.     *)
Epoch(phase, auc, loss) ==
    /\ pc = IF phase = 1 THEN "phase1" ELSE "phase2"
    /\ ~stop_training
    /\ epoch < FitLastEpoch(phase)
    /\ LET trained == [epoch |-> epoch, auc |-> auc]
           e == EsEpochEnd(es, epoch, auc, trained)
           m == McEpochEnd(mc, auc, e.weights, files["anemia_model_best.keras"])
           r == RlrEpochEnd(rlr, loss, lr)
           s == IF loss < lossBest THEN 0 ELSE lossStreak + 1
       IN  /\ es' = e.es
           /\ stop_training' = e.stop
           /\ weights' = e.weights
           /\ mc' = m.mc
           /\ files' = [files EXCEPT !["anemia_model_best.keras"] = m.file]
           /\ rlr' = r.rlr
           /\ lr' = r.lr
           /\ lossBest' = Min(lossBest, loss)
           /\ lossStreak' = IF s >= RLR_PATIENCE \/ r.lr # lr THEN 0 ELSE s
           /\ lrEvent' = [due |-> s >= RLR_PATIENCE, old |-> lr]
    /\ epoch' = epoch + 1
    /\ epochLog' = Append(epochLog, <<phase, epoch>>)
    /\ bestSeen' = Max(bestSeen, auc)
    /\ streak' = IF auc > bestSeen THEN 0 ELSE streak + 1
    /\ phaseBest' = Max(phaseBest, auc)
    /\ phaseStreak' = IF auc > phaseBest THEN 0 ELSE phaseStreak + 1
    /\ UNCHANGED <<args, pc, created, trainable, outputDir, log, evaluated, metrics, f1Line, tfliteSupport>>

(* model.fit() leaves its epoch loop (epochs exhausted, or stop_training):  *)
(* every callback's on_train_end.                                           *)
FitEnd(phase) ==
    /\ pc = IF phase = 1 THEN "phase1" ELSE "phase2"
    /\ stop_training \/ epoch >= FitLastEpoch(phase)
    /\ weights' = EsTrainEnd(es, weights)
    /\ pc' = IF phase = 1 THEN "phase1_end" ELSE "evaluate"
    /\ UNCHANGED <<args, epoch, stop_training, created, trainable, lr, es, mc, rlr,
                   outputDir, files, log, evaluated, metrics, f1Line, tfliteSupport, history>>

(* main(), lines 470-476: Phase 2 is skipped, or fine_tune_model() runs *)
FineTune ==
    /\ pc = "phase1_end"
    /\ IF EntersPhase2(epochs)
       THEN /\ trainable' = TrainableAfterFineTune(nLayers, fine_tune_layers)
            /\ lr' = FineTuneLr(learning_rate)
            /\ pc' = "phase2_begin"
       ELSE /\ pc' = "evaluate"
            /\ UNCHANGED <<trainable, lr>>
    /\ UNCHANGED <<args, epoch, stop_training, created, weights, es, mc, rlr,
                   outputDir, files, log, evaluated, metrics, f1Line, tfliteSupport, history>>

(* Variant: the F1 division made whatever the sum is *)
F1GuardAlways(p, r) == TRUE

(* evaluate_model(): "if metrics['precision'] + metrics['recall'] > 0" *)
F1Guard(p, r) == p + r > 0

(* Python's a / b on floats: ZeroDivisionError when b is 0 *)
Divide(a, b) == IF b = 0 THEN DivisionFault ELSE [fault |-> FALSE, num |-> a, den |-> b]

(* evaluate_model(): f1 = 2 * (precision * recall) / (precision + recall),  *)
(* precision = p / PrScale and recall = r / PrScale                        *)
F1Of(p, r) == Divide(2 * p * r, (p + r) * PrScale)

(* evaluate_model(): dict(zip(model.metrics_names, results)) *)
MetricsOf(w, p, r) ==
    [name \in MetricNames |->
        CASE name = "precision" -> p
          [] name = "recall" -> r
          [] name = "auc" -> w.auc
          [] OTHER -> Measured]

(* evaluate_model(model, val_gen) with precision p / PrScale and recall     *)
(* r / PrScale: the dict is built and returned, F1 is printed under the     *)
(* guard and kept nowhere else.                                             *)
Evaluate(p, r) ==
    /\ pc = "evaluate"
    /\ evaluated' = weights
    /\ LET f1 == IF F1Guard(p, r) THEN F1Of(p, r) ELSE DivisionFault
       IN  IF F1Guard(p, r) /\ f1.fault
           THEN /\ pc' = "crashed"
                /\ UNCHANGED <<metrics, f1Line>>
           ELSE /\ metrics' = MetricsOf(weights, p, r)
                /\ f1Line' = IF F1Guard(p, r)
                             THEN [printed |-> TRUE, num |-> f1.num, den |-> f1.den]
                             ELSE NoF1Line
                /\ pc' = "save"
    /\ UNCHANGED <<args, epoch, stop_training, created, weights, trainable, lr, es, mc, rlr,
                   outputDir, files, log, tfliteSupport, history>>

(* model.save(keras_path) *)
SaveFinal ==
    /\ pc = "save"
    /\ files' = [files EXCEPT !["anemia_model_final.keras"] = KerasFile(weights)]
    /\ pc' = "convert"
    /\ UNCHANGED <<args, epoch, stop_training, created, weights, trainable, lr, es, mc, rlr,
                   outputDir, log, evaluated, metrics, f1Line, tfliteSupport, history>>

(* convert_to_tflite(): the quantized binary, labels.txt, model_metadata.json *)
ConvertToTflite ==
    /\ pc = "convert"
    /\ outputDir' = TRUE
    /\ files' = [files EXCEPT !["anemia_detector.tflite"] = TfliteFile(weights, FALSE),
                              !["labels.txt"] = TextFile,
                              !["model_metadata.json"] = TextFile]
    /\ pc' = "metadata"
    /\ UNCHANGED <<args, epoch, stop_training, created, weights, trainable, lr, es, mc, rlr,
                   log, evaluated, metrics, f1Line, tfliteSupport, history>>

(* add_tflite_metadata() with tflite_support importable: populate() on      *)
(* tflite_path, shutil.copy to the _with_metadata path, populate() on that. *)
EmbedMetadata(fs) ==
    LET populated == Populate(fs["anemia_detector.tflite"])
    IN  [fs EXCEPT !["anemia_detector.tflite"] = populated,
                   !["anemia_detector_with_metadata.tflite"] = Populate(populated)]

(* Variant: the fallback also writes the _with_metadata file *)
SkipMetadataCopy(fs) ==
    [fs EXCEPT !["anemia_detector_with_metadata.tflite"] = fs["anemia_detector.tflite"]]

(* add_tflite_metadata() when the import raises ImportError: the warning *)
SkipMetadata(fs) == fs

(* add_tflite_metadata(), then the closing banner of main() *)
AddTfliteMetadata(available) ==
    /\ pc = "metadata"
    /\ tfliteSupport' = IF available THEN "installed" ELSE "absent"
    /\ IF available
       THEN /\ files' = EmbedMetadata(files)
            /\ log' = log \cup {"complete"}
       ELSE /\ files' = SkipMetadata(files)
            /\ log' = log \cup {"warn_no_tflite_support", "complete"}
    /\ pc' = "done"
    /\ UNCHANGED <<args, epoch, stop_training, created, weights, trainable, lr, es, mc, rlr,
                   outputDir, evaluated, metrics, f1Line, history>>

(* One step of main(), the validation metrics of an epoch drawn from A and  *)
(* L, the final precision and recall from P                                 *)
NextOf(A, L, P) ==
    \/ Start
    \/ \E phase \in {1, 2} : FitBegin(phase)
    \/ \E phase \in {1, 2}, auc \in A, loss \in L : Epoch(phase, auc, loss)
    \/ \E phase \in {1, 2} : FitEnd(phase)
    \/ FineTune
    \/ \E p \in P, r \in P : Evaluate(p, r)
    \/ SaveFinal
    \/ ConvertToTflite
    \/ \E available \in BOOLEAN : AddTfliteMetadata(available)

(* One step of main() with the final precision and recall each 0 or 1 *)
NextWith(A, L) == NextOf(A, L, CoarseRates)

(* Runs of every length with every course of the validation AUC; the        *)
(* validation loss, which no AUC-monitoring callback reads, stays level.    *)
Next == NextWith(AucValues, {LevelLoss})

Spec == Init /\ [][Next]_vars

(* Runs with every course of the validation loss, from every modelled       *)
(* learning rate.                                                           *)
InitLR == InitWith(LrEpochs, LearningRates, {DEFAULT_FINE_TUNE}, {MaxLayers}, {"ok"})

NextLR == NextWith(LrAucValues, LossValues)

SpecLR == InitLR /\ [][NextLR]_vars

(* Short runs evaluated with every precision and recall in steps of        *)
(* 1 / PrScale.                                                             *)
InitEval == InitWith(EvalEpochs, {DEFAULT_LR}, {DEFAULT_FINE_TUNE}, {MaxLayers}, {"ok"})

NextEval == NextOf(AucValues, {LevelLoss}, 0..PrScale)

SpecEval == InitEval /\ [][NextEval]_vars

(* Runs that reach fine_tune_model() with every layer count and every       *)
(* fine_tune_layers.                                                        *)
InitFT == InitWith(FtEpochs, {DEFAULT_LR}, 0..MaxFineTune, 1..MaxLayers, {"ok"})

SpecFT == InitFT /\ [][Next]_vars

----------------------------------------------------------------------------
(* Properties *)

Training == {"phase1", "phase2"}
PostTraining == {"evaluate", "save", "convert", "metadata", "done"}
BestFile == files["anemia_model_best.keras"]

(* The <<phase, epoch index>> log of a run of n epochs that is not stopped  *)
(* early: min(10, n/2) epochs of Phase 1 from index 0, then Phase 2 up to n *)
ScheduleOf(n) ==
    [i \in 1..n |-> <<IF i <= Min(10, n \div 2) THEN 1 ELSE 2, i - 1>>]

(* C1: with no early stop, Phase 1 runs exactly min(10, total_epochs/2)     *)
(* epochs from index 0, Phase 2 is entered iff total_epochs exceeds that    *)
(* count and continues the numbering through total_epochs, so every epoch   *)
(* index 0..total_epochs-1 is run exactly once, in order, and training then *)
(* ends: the pipeline is never stuck before its end.                        *)
C1_PhaseSchedule ==
    /\ Len(epochLog) <= epochs
    /\ epochLog = SubSeq(ScheduleOf(epochs), 1, Len(epochLog))
    /\ pc \in {"phase2_begin", "phase2"} => epochs > Min(10, epochs \div 2)
    /\ pc = "phase1_end" => Len(epochLog) = Min(10, epochs \div 2)
    /\ (pc \in PostTraining /\ ~stop_training) => epochLog = ScheduleOf(epochs)
    /\ pc \notin {"done", "halted"} => ENABLED Next

(* C1 witness: epochs=4 has run epochs 0,1 in Phase 1 and 2,3 in Phase 2 *)
C1_Witness ==
    /\ pc = "evaluate"
    /\ epochs = 4
    /\ ~stop_training
    /\ epochLog = << <<1, 0>>, <<1, 1>>, <<2, 2>>, <<2, 3>> >>

(* C2: across both phases the on-disk best checkpoint is overwritten only   *)
(* by the epoch that just ran, and only when that epoch's validation AUC    *)
(* strictly exceeds the AUC of the checkpoint on disk (hence, step by step, *)
(* of every checkpoint persisted before it, those of Phase 1 included).     *)
C2_CheckpointMonotone ==
    [][BestFile' # BestFile =>
          /\ BestFile'.kind = "keras"
          /\ BestFile'.weights.epoch = epoch
          /\ BestFile'.weights.auc > bestSeen
          /\ BestFile = NoFile \/ BestFile'.weights.auc > BestFile.weights.auc]_vars

(* C2 witness: in Phase 2 an epoch has improved on the early-stopping best  *)
(* of this fit() but not on the checkpoint kept from Phase 1.               *)
C2_Witness ==
    /\ pc = "phase2"
    /\ epoch > Min(10, epochs \div 2)
    /\ es.wait = 0
    /\ es.best < BestFile.weights.auc
    /\ BestFile.weights.epoch < Min(10, epochs \div 2)

(* C3 as stated: between the end of Phase 1 and the first epoch of Phase 2  *)
(* the best-seen value, the best snapshot and the non-improvement counter   *)
(* of the stopping policy, and the best-seen value of the checkpointing     *)
(* policy, keep their end-of-Phase-1 values.                                *)
C3_PolicyStateKept ==
    [][(pc \in {"phase1_end", "phase2_begin"}) =>
          (/\ es'.best = es.best
           /\ es'.best_weights = es.best_weights
           /\ es'.wait = es.wait
           /\ mc'.best = mc.best)]_vars

(* C3 amended: between the end of Phase 1 and the first epoch of Phase 2    *)
(* only the checkpointing policy keeps its state (its best-seen value and   *)
(* the checkpoint on disk); the stopping policy, though the same instance,  *)
(* enters Phase 2 with no best value, no snapshot and a counter of zero.    *)
C3_CheckpointStateKept ==
    [][(pc \in {"phase1_end", "phase2_begin"}) =>
          (/\ mc'.best = mc.best
           /\ mc'.best = bestSeen
           /\ BestFile' = BestFile
           /\ pc' = "phase2" => (/\ es'.best = NegInf
                                 /\ es'.best_weights = NoWeights
                                 /\ es'.wait = 0))]_vars

(* C3 witness: the first epoch of Phase 2 is about to run after a Phase 1   *)
(* that checkpointed; the stopping policy holds no best value.              *)
C3_Witness ==
    /\ pc = "phase2"
    /\ epoch = Min(10, epochs \div 2)
    /\ Len(epochLog) = epoch
    /\ epoch > 0
    /\ mc.best = bestSeen
    /\ BestFile.weights.auc = bestSeen
    /\ es.best = NegInf

(* C4: once training is over, the parameters the Evaluator, the final       *)
(* snapshot and the export receive are those of the epoch with the highest  *)
(* validation AUC of the run (the checkpointed ones).                       *)
C4_TerminalBestParams ==
    (pc \in PostTraining /\ epochLog # <<>>) =>
        /\ weights.auc = bestSeen
        /\ evaluated # NoWeights => evaluated.auc = bestSeen
        /\ files["anemia_model_final.keras"] # NoFile =>
               files["anemia_model_final.keras"].weights.auc = bestSeen
        /\ files["anemia_detector.tflite"] # NoFile =>
               files["anemia_detector.tflite"].weights.auc = bestSeen

(* C5 as stated: after every epoch, early stopping has fired exactly when   *)
(* the validation AUC has failed to exceed the best value seen in the run   *)
(* for 10 consecutive epochs.                                               *)
C5_EarlyStopRunWide ==
    (pc \in Training /\ epochLog # <<>> /\ epoch > FitFirstEpoch(IF pc = "phase1" THEN 1 ELSE 2)) =>
        (stop_training <=> streak >= 10)

(* C5 amended: early stopping fires exactly when the validation AUC has     *)
(* failed to exceed the best value seen in the current phase for 10         *)
(* consecutive epochs of that phase; no further epoch of the phase runs and *)
(* the parameters are put back to the best ones of that phase before the    *)
(* pipeline goes on; otherwise training runs until the epochs are used up.  *)
C5_EarlyStopPerPhase ==
    /\ (pc \in Training /\ Len(epochLog) > 0 /\ epochLog[Len(epochLog)][1] = (IF pc = "phase1" THEN 1 ELSE 2)) =>
           (stop_training <=> phaseStreak >= 10)
    /\ stop_training =>
           /\ epochLog[Len(epochLog)] = <<2, epoch - 1>>
           /\ es.stopped_epoch = epoch - 1
           /\ weights.auc = phaseBest
           /\ weights.epoch = epoch - 1 - phaseStreak
    /\ (pc \in PostTraining /\ ~stop_training) => Len(epochLog) = epochs

(* C5 witness: training was stopped early, with epochs left, and the        *)
(* pipeline has gone on to evaluation.                                      *)
C5_Witness ==
    /\ pc = "evaluate"
    /\ stop_training
    /\ Len(epochLog) < epochs
    /\ weights.epoch < epoch - 1

(* C6: if the data directory or either class subdirectory is missing, the   *)
(* pipeline prints a diagnostic and halts before any computation: no data   *)
(* generator or model is created, no epoch runs, the output directory is    *)
(* not created and no output file is written.                               *)
C6_ConfigErrorHalts ==
    /\ dataDir # "ok" => pc \in {"start", "halted"}
    /\ pc = "halted" =>
           /\ dataDir # "ok"
           /\ log \in {{"error_data_dir"}, {"error_subdirs"}}
           /\ "error_data_dir" \in log <=> dataDir = "missing"
           /\ ~created
           /\ weights = NoWeights
           /\ epochLog = <<>>
           /\ ~outputDir
           /\ \A f \in FileNames : files[f] = NoFile
           /\ evaluated = NoWeights
           /\ ~ENABLED Next

(* C6 witness: halted on a data directory that lacks only normal/ *)
C6_Witness ==
    /\ pc = "halted"
    /\ dataDir = "no_normal"
    /\ log = {"error_subdirs"}

(* C7: on entering Phase 2 with fine_tune_layers = K >= 0 and L layers,     *)
(* exactly the last min(K, L) layers of the feature extractor are trainable *)
(* and all earlier ones are frozen.                                         *)
C7_LastKTrainable ==
    pc \in {"phase2_begin", "phase2"} =>
        trainable = {i \in 1..nLayers : i > nLayers - Min(fine_tune_layers, nLayers)}

(* C8 as stated: the rate is halved whenever the validation loss has failed *)
(* to improve for 5 consecutive epochs, it never falls below 1e-7, and      *)
(* Phase 2 starts at exactly 1/10 of the configured rate.                   *)
C8_HalvedWithFloor ==
    /\ (pc \in Training /\ lrEvent.due) => 2 * lr = lrEvent.old
    /\ created => lr >= MIN_LR
    /\ pc = "phase2_begin" => 10 * lr = learning_rate

(* C8 amended: whenever the validation loss has failed to improve on the    *)
(* best loss of the current phase for 5 consecutive epochs (counted from    *)
(* the phase start or the last reduction), whatever the AUC does, the rate  *)
(* becomes max(rate/2, 1e-7) if it is above 1e-7 and is left alone          *)
(* otherwise; no reduction takes it below 1e-7, so it never falls below the *)
(* smaller of 1e-7 and the rate the phase started with; Phase 2 starts at   *)
(* exactly 1/10 of the configured rate.                                     *)
C8_HalvedDownToFloor ==
    /\ (pc \in Training /\ lrEvent.due) =>
           IF lrEvent.old >= 2 * MIN_LR THEN 2 * lr = lrEvent.old
           ELSE IF lrEvent.old > MIN_LR THEN lr = MIN_LR
           ELSE lr = lrEvent.old
    /\ pc \in {"phase1_begin", "phase1", "phase1_end"} =>
           (lr >= MIN_LR \/ lr = learning_rate)
    /\ created => (lr >= MIN_LR \/ lr = learning_rate \/ 10 * lr = learning_rate)
    /\ pc = "phase2_begin" => 10 * lr = learning_rate

(* C8 witness: in Phase 2 a fifth epoch without a lower loss has just cut a *)
(* rate between 1e-7 and 2e-7 to the floor.                                 *)
C8_Witness ==
    /\ pc = "phase2"
    /\ lrEvent.due
    /\ lrEvent.old > MIN_LR
    /\ lrEvent.old < 2 * MIN_LR
    /\ lr = MIN_LR

(* C9: without the metadata-embedding library the export is not fatal: the  *)
(* quantized artifact without embedded metadata, labels.txt and             *)
(* model_metadata.json are written, no metadata-embedded variant exists, a  *)
(* warning is printed and the pipeline completes.                           *)
C9_MetadataFallback ==
    tfliteSupport = "absent" =>
        /\ pc = "done"
        /\ log = {"warn_no_tflite_support", "complete"}
        /\ files["anemia_detector.tflite"] = [kind |-> "tflite", weights |-> weights, metadata |-> FALSE]
        /\ files["labels.txt"].kind = "text"
        /\ files["model_metadata.json"].kind = "text"
        /\ files["anemia_detector_with_metadata.tflite"].kind = "absent"
        /\ files["anemia_model_final.keras"].kind = "keras"

(* C9 witness: a full two-phase run completed without the library *)
C9_Witness ==
    /\ tfliteSupport = "absent"
    /\ pc = "done"
    /\ epochs = 4
    /\ Len(epochLog) = 4

(* C10: once convert_to_tflite has written the quantized binary, no later   *)
(* step modifies that file.                                                 *)
C10_TfliteNeverMutated ==
    [][files["anemia_detector.tflite"].kind = "tflite" =>
          files'["anemia_detector.tflite"] = files["anemia_detector.tflite"]]_vars

AfterEvaluate == {"save", "convert", "metadata", "done"}

(* C11 as stated: evaluation never ends in a division fault; when P+R > 0   *)
(* the Metrics Record holds F1 = 2*P*R/(P+R), and when P+R = 0 it holds no  *)
(* F1.                                                                      *)
C11_F1InRecord ==
    /\ pc # "crashed"
    /\ pc \in AfterEvaluate =>
           LET p == metrics["precision"]
               r == metrics["recall"]
               extra == DOMAIN metrics \ {"loss", "accuracy", "precision", "recall", "auc"}
           IN  IF p + r > 0
               THEN \E k \in extra :
                        metrics[k].num * (p + r) * PrScale = 2 * p * r * metrics[k].den
               ELSE extra = {}

(* C11 amended: evaluation never ends in a division fault; when P+R > 0,    *)
(* F1 = 2*P*R/(P+R) is computed and printed with the final metrics, and     *)
(* when P+R = 0 no F1 is printed; in both cases the returned Metrics Record *)
(* holds exactly loss, accuracy, precision, recall and AUC, and no F1.      *)
C11_F1Printed ==
    /\ pc # "crashed"
    /\ pc \in AfterEvaluate =>
           /\ DOMAIN metrics = {"loss", "accuracy", "precision", "recall", "auc"}
           /\ metrics["auc"] = evaluated.auc
           /\ LET p == metrics["precision"]
                  r == metrics["recall"]
              IN  IF p + r > 0
                  THEN /\ f1Line.printed
                       /\ f1Line.den > 0
                       /\ f1Line.num * (p + r) * PrScale = 2 * p * r * f1Line.den
                  ELSE ~f1Line.printed
    /\ pc \notin AfterEvaluate => (metrics = NoMetrics /\ ~f1Line.printed)

(* C11 witness: a run evaluated with precision = recall = 0 has completed,  *)
(* with no F1 printed.                                                      *)
C11_Witness ==
    /\ pc = "done"
    /\ epochLog # <<>>
    /\ metrics["precision"] = 0
    /\ metrics["recall"] = 0
    /\ ~f1Line.printed

====
